---------------------------- MODULE Spec2Model ----------------------------
(***************************************************************************)
(* A model of the vector index / search services of rag-nlp-refact         *)
(* (backend/services/vector_store_service.py, search_service.py).          *)
(*                                                                         *)
(* Text is modelled as a sequence of one-character strings, a Python dict  *)
(* as a function whose DOMAIN is its key set (so that dict.get(k, d) is    *)
(* Get(d, k, default)), and a float score as an integer number of tenths.  *)
(***************************************************************************)
EXTENDS Integers, Sequences, FiniteSets, TLC

VARIABLES
    san,        \* the name legalizer: its input and its two results
    chroma,     \* the Chroma store: collection name -> sequence of records
    milvus,     \* the Milvus store: collection name -> collection
    connected,  \* pymilvus' connection registry holds the alias "default"
    clock,      \* datetime.now(), in seconds from the first timestamp
    indexedBy,  \* history: collection name -> the artifact index() stored in it
    last,       \* the last call: its arguments, its steps and its outcome
    parse,      \* the parsing service: the file given, the call and its outcome
    scan,       \* the structured Markdown scan, loop iteration by loop iteration
    threads     \* the threads inside a Milvus call, and where each one is

vars ==
    <<san, chroma, milvus, connected, clock, indexedBy, last, parse, scan,
      threads>>

----------------------------------------------------------------------------
(* Bounds of the model. *)

\* Longest head and tail put around the run of letters of a legalizer input.
MaxAffix == 2
\* The clock stops after this many seconds.
MaxClock == 1
\* The Chroma store holds at most this many collections.
MaxCollections == 2
\* The largest top_k a search asks for.
MaxTopK == 2

----------------------------------------------------------------------------
(* Text helpers. *)

\* The function f over 1..n as a sequence.
AsSeq(f) == f \o <<>>

Rep(c, n) == AsSeq([i \in 1..n |-> c])

Min(S) == CHOOSE x \in S : \A y \in S : x <= y

Max(S) == CHOOSE x \in S : \A y \in S : x >= y

\* The concatenation of the sequences parts[lo..hi].
RECURSIVE Concat(_, _, _)
Concat(parts, lo, hi) ==
    IF lo > hi THEN <<>>
    ELSE IF lo = hi THEN parts[lo]
    ELSE Concat(parts, lo, (lo + hi) \div 2) \o Concat(parts, (lo + hi) \div 2 + 1, hi)

Flatten(parts) == Concat(AsSeq(parts), 1, Len(parts))

\* dict.get(k, d)
Get(d, k, default) == IF k \in DOMAIN d THEN d[k] ELSE default

Lower == {"a","b","c","d","e","f","g","h","i","j","k","l","m",
          "n","o","p","q","r","s","t","u","v","w","x","y","z"}

Upper == {"A","B","C","D","E","F","G","H","I","J","K","L","M",
          "N","O","P","Q","R","S","T","U","V","W","X","Y","Z"}

Digits == {"0","1","2","3","4","5","6","7","8","9"}

\* [a-zA-Z0-9]
AlnumChars == Lower \cup Upper \cup Digits

\* [a-zA-Z0-9_-]
AllowedChars == AlnumChars \cup {"_", "-"}

Separators == {"_", "-"}

----------------------------------------------------------------------------
(* VectorStoreService._sanitize_collection_name *)

MinNameLen == 3
PadLen == 3
MaxNameLen == 63

\* re.sub(r'[^a-zA-Z0-9_-]', '_', name)
ReplaceDisallowed(s) ==
    AsSeq([i \in 1..Len(s) |-> IF s[i] \in AllowedChars THEN s[i] ELSE "_"])

\* re.sub(r'_+', '_', name)
CollapseUnderscores(s) ==
    Flatten([i \in 1..Len(s) |->
                IF s[i] = "_" /\ i > 1 /\ s[i-1] = "_" THEN <<>> ELSE <<s[i]>>])

\* A mutant of StripLeading: the pattern without its '+', one character only.
StripLeadingOne(s) ==
    IF s # <<>> /\ s[1] \notin AlnumChars THEN Tail(s) ELSE s

\* re.sub(r'^[^a-zA-Z0-9]+', '', name)
StripLeading(s) ==
    LET idx == {i \in 1..Len(s) : s[i] \in AlnumChars}
    IN  IF idx = {} THEN <<>> ELSE SubSeq(s, Min(idx), Len(s))

\* re.sub(r'[^a-zA-Z0-9]+$', '', name)
StripTrailing(s) ==
    LET idx == {i \in 1..Len(s) : s[i] \in AlnumChars}
    IN  IF idx = {} THEN <<>> ELSE SubSeq(s, 1, Max(idx))

\* if len(name) < 3: name = (name + 'abc')[:3]
PadShort(s) ==
    IF Len(s) < MinNameLen THEN SubSeq(s \o <<"a", "b", "c">>, 1, PadLen) ELSE s

\* if len(name) > 63: name = name[:63]
Truncate(s) ==
    IF Len(s) > MaxNameLen THEN SubSeq(s, 1, MaxNameLen) ELSE s

sanitize_collection_name(name) ==
    Truncate(PadShort(StripTrailing(StripLeading(
        CollapseUnderscores(ReplaceDisallowed(name))))))

----------------------------------------------------------------------------
(* The legalizer applied to a bounded family of inputs: a head and a tail  *)
(* over SanAlphabet around a run of letters whose length is 0 or lies near *)
(* the length limit.                                                       *)

SanAlphabet == {"a", "_", "-", "!"}

StrsUpTo(n) == UNION {[1..k -> SanAlphabet] : k \in 0..n}

PadRuns == {0} \cup ((MaxNameLen - 4)..(MaxNameLen + 1))

SanInputs ==
    {h \o Rep("a", p) \o t : h \in StrsUpTo(MaxAffix), p \in PadRuns,
                             t \in StrsUpTo(MaxAffix)}

SanIdle == [pc |-> "idle", raw |-> <<>>, once |-> <<>>, twice |-> <<>>]

\* The parsing service when no file is given to it.
ParseIdle == [pc |-> "idle"]

\* No structured scan is running, and no thread is in a call.
ScanIdle == [pc |-> "idle"]

NoThreads == <<>>

SanitizeOnce ==
    /\ san.pc = "start"
    /\ san' = [san EXCEPT !.pc = "once",
                          !.once = sanitize_collection_name(san.raw)]
    /\ UNCHANGED <<chroma, milvus, connected, clock, indexedBy, last, parse, scan, threads>>

SanitizeTwice ==
    /\ san.pc = "once"
    /\ san' = [san EXCEPT !.pc = "twice",
                          !.twice = sanitize_collection_name(san.once)]
    /\ UNCHANGED <<chroma, milvus, connected, clock, indexedBy, last, parse, scan, threads>>

----------------------------------------------------------------------------
(* Collection names: _index_to_milvus, lines 125-134, and the same code in *)
(* _index_to_chroma, lines 252-261.                                        *)

\* One CJK character (U+5317); SanAlphabet's "!" stands for the others.
HanziBei == "U+5317"

\* str.replace(old, ''), for an `old` no occurrence of which overlaps
\* another (as '.pdf'): every character of an occurrence is removed.
RemoveAll(s, old) ==
    LET n == Len(old)
        Starts(j) == j >= 1 /\ j + n - 1 <= Len(s) /\ SubSeq(s, j, j + n - 1) = old
        InMatch(i) == \E j \in (i - n + 1)..i : Starts(j)
    IN  Flatten([i \in 1..Len(s) |-> IF InMatch(i) THEN <<>> ELSE <<s[i]>>])

\* str.replace('-', '_')
ReplaceChar(s, old, new) ==
    AsSeq([i \in 1..Len(s) |-> IF s[i] = old THEN new ELSE s[i]])

\* ''.join(lazy_pinyin(s, style=Style.NORMAL)): a Han character becomes its
\* romanization, every other character is kept.
LazyPinyin(s) ==
    Flatten([i \in 1..Len(s) |->
                IF s[i] = HanziBei THEN <<"b", "e", "i">> ELSE <<s[i]>>])

\* datetime.now().strftime("%Y%m%d%H%M%S") at clock second c (c < 10).
Timestamp(c) ==
    <<"2","0","2","4","0","1","0","1","0","0","0","0","0">>
        \o <<(<<"0","1","2","3","4","5","6","7","8","9">>)[c + 1]>>

DotPdf == <<".", "p", "d", "f">>
DocName == <<"d", "o", "c">>
UnknownProvider == <<"u", "n", "k", "n", "o", "w", "n">>

\* The sanitized base name (lines 125-130).
BaseName(data) ==
    LET filename == Get(data, "filename", <<>>)
        stem == IF filename # <<>> THEN RemoveAll(filename, DotPdf) ELSE DocName
    IN  sanitize_collection_name(ReplaceChar(LazyPinyin(stem), "-", "_"))

\* The collection name (lines 131-134).
CollectionName(data, timestamp) ==
    LET embedding_provider == Get(data, "embedding_provider", UnknownProvider)
    IN  sanitize_collection_name(
            BaseName(data) \o <<"_">> \o embedding_provider \o <<"_">> \o timestamp)

----------------------------------------------------------------------------
(* The embeddings artifacts index() is given: what _load_embeddings        *)
(* returns, the top-level dict of the JSON file.                           *)

OpenAI == <<"o", "p", "e", "n", "a", "i">>
HuggingFace == <<"h", "f">>

Meta(content, chunk_id, word_count) ==
    [content |-> content, chunk_id |-> chunk_id, total_chunks |-> 2,
     word_count |-> word_count, page_number |-> 1, page_range |-> "1",
     embedding_timestamp |-> "t0"]

\* A record whose metadata has no word_count.
MetaNoWordCount(content, chunk_id) ==
    [content |-> content, chunk_id |-> chunk_id, total_chunks |-> 1,
     page_number |-> 2, page_range |-> "2", embedding_timestamp |-> "t0"]

Artifacts == <<
    \* a CJK file name, two records
    [filename |-> <<HanziBei, "-", "r", "!">> \o DotPdf,
     embedding_provider |-> OpenAI, embedding_model |-> "text-embedding-3-small",
     vector_dimension |-> 2,
     embeddings |-> << [embedding |-> <<10, 0>>, metadata |-> Meta("alpha", 0, 30)],
                       [embedding |-> <<6, 8>>,  metadata |-> Meta("beta", 1, 5)] >>],
    \* a file name of MaxNameLen letters, one record
    [filename |-> Rep("a", MaxNameLen) \o DotPdf,
     embedding_provider |-> HuggingFace, embedding_model |-> "bge-small",
     vector_dimension |-> 2,
     embeddings |-> << [embedding |-> <<0, 10>>,
                        metadata |-> MetaNoWordCount("gamma", 0)] >>],
    \* no file name, no provider, no model, no records
    [vector_dimension |-> 2, embeddings |-> <<>>],
    \* no vector_dimension, one record
    [filename |-> <<"n", "d">> \o DotPdf,
     embedding_provider |-> OpenAI, embedding_model |-> "text-embedding-3-small",
     embeddings |-> << [embedding |-> <<8, 6>>, metadata |-> Meta("delta", 0, 25)] >>],
    \* no embeddings key
    [filename |-> <<"n", "e">> \o DotPdf,
     embedding_provider |-> OpenAI, embedding_model |-> "text-embedding-3-small",
     vector_dimension |-> 2]
>>

ArtifactIds == DOMAIN Artifacts

\* CollectionName, tabulated once for the artifacts and the timestamps of the
\* model.
CollectionNameTable ==
    [d \in {Artifacts[a] : a \in ArtifactIds} |->
        [t \in {Timestamp(c) : c \in 0..MaxClock} |-> CollectionName(d, t)]]

CollectionNameOf(data, timestamp) == CollectionNameTable[data][timestamp]


----------------------------------------------------------------------------
(* utils/config.py *)

MILVUS == "milvus"
CHROMA == "chroma"

\* MILVUS_CONFIG["index_types"]
MilvusIndexTypes ==
    [flat |-> "FLAT", ivf_flat |-> "IVF_FLAT", ivf_sq8 |-> "IVF_SQ8", hnsw |-> "HNSW"]

\* MILVUS_CONFIG["index_params"]
MilvusIndexParams ==
    [flat |-> "{}", ivf_flat |-> "{nlist: 1024}", ivf_sq8 |-> "{nlist: 1024}",
     hnsw |-> "{M: 16, efConstruction: 500}"]

\* The methods class VectorDBConfig defines.
VectorDBConfigMethods ==
    {"__init__", "_get_milvus_index_type", "_get_milvus_index_params",
     "_get_chroma_index_params"}

\* The methods class VectorStoreService defines.
VectorStoreServiceMethods ==
    {"__init__", "_init_chroma_client", "_sanitize_collection_name",
     "index_embeddings", "_load_embeddings", "_index_to_milvus",
     "_index_to_chroma", "list_collections", "delete_collection",
     "get_collection_info"}

\* VectorDBConfig._get_milvus_index_type
get_milvus_index_type(index_mode) == Get(MilvusIndexTypes, index_mode, "FLAT")

\* VectorDBConfig._get_milvus_index_params
get_milvus_index_params(index_mode) == Get(MilvusIndexParams, index_mode, "{}")

\* The VectorDBConfig values index() is called with.
Configs ==
    { [provider |-> MILVUS, index_mode |-> "hnsw"],
      [provider |-> MILVUS, index_mode |-> "annoy"],
      [provider |-> CHROMA, index_mode |-> "hnsw"],
      [provider |-> "pinecone", index_mode |-> "flat"] }

Providers == {MILVUS, CHROMA, "pinecone"}

----------------------------------------------------------------------------
(* The two stores. A store is a function from the names of its collections.*)

NoCollections == [n \in {} |-> <<>>]

Has(db, name) == name \in DOMAIN db

Put(db, name, coll) ==
    [n \in DOMAIN db \cup {name} |-> IF n = name THEN coll ELSE db[n]]

Drop(db, name) == [n \in DOMAIN db \ {name} |-> db[n]]

\* F(v), with v evaluated once.
With(v, F(_)) == CHOOSE y \in {F(x) : x \in {v}} : TRUE

\* What a call has done so far: the stores, the connection registry, the
\* provider calls made, and the exception raised ("" for none).
Begin ==
    [chroma |-> chroma, milvus |-> milvus, connected |-> connected,
     trace |-> <<>>, error |-> "", collection |-> <<>>, value |-> <<>>,
     embed |-> <<>>, hits |-> <<>>, results |-> <<>>]

Step(st, what) == [st EXCEPT !.trace = Append(@, what)]

Raise(st, error) == [st EXCEPT !.error = error]

\* connections.connect(alias="default", uri=...)
Connect(st) == [Step(st, "connect") EXCEPT !.connected = TRUE]

\* connections.disconnect("default")
Disconnect(st) == [Step(st, "disconnect") EXCEPT !.connected = FALSE]

----------------------------------------------------------------------------
(* VectorStoreService._index_to_milvus *)

\* str(n) of a small number.
Str(n) == (<<"0", "1", "2", "3", "4", "5", "6", "7", "8", "9">>)[n + 1]

\* The entities built from the artifact (lines 172-188).
MilvusEntities(data) ==
    AsSeq([i \in 1..Len(data.embeddings) |->
        LET emb == data.embeddings[i]
        IN  [content |-> Get(emb.metadata, "content", ""),
             document_name |-> Get(data, "filename", <<>>),
             chunk_id |-> Get(emb.metadata, "chunk_id", 0),
             total_chunks |-> Get(emb.metadata, "total_chunks", 0),
             word_count |-> Get(emb.metadata, "word_count", 0),
             page_number |-> Str(Get(emb.metadata, "page_number", 0)),
             page_range |-> Get(emb.metadata, "page_range", ""),
             embedding_provider |-> Get(data, "embedding_provider", <<>>),
             embedding_model |-> Get(data, "embedding_model", ""),
             embedding_timestamp |-> Get(emb.metadata, "embedding_timestamp", ""),
             vector |-> Get(emb, "embedding", <<>>)]])

\* collection.insert(entities): the primary key is assigned by the store.
MilvusInsert(coll, entities) ==
    [coll EXCEPT !.entities =
        @ \o [i \in 1..Len(entities) |->
                [k \in DOMAIN entities[i] \cup {"id"} |->
                    IF k = "id" THEN Len(coll.entities) + i ELSE entities[i][k]]]]

EmptyMilvusCollection == [entities |-> <<>>, index |-> <<>>, loaded |-> FALSE]

\* Lines 190-241: create the collection, insert, build the index, load.
MilvusCreateInsertIndexLoad(st, data, config, collection_name) ==
    With(MilvusEntities(data), LAMBDA entities :
    \* Collection(name=..., schema=...) creates the collection, or opens the
    \* one of that name
    With(IF Has(st.milvus, collection_name) THEN st.milvus[collection_name]
         ELSE EmptyMilvusCollection, LAMBDA created :
    With(MilvusInsert(created, entities), LAMBDA inserted :
    With([inserted EXCEPT
             !.index = <<"COSINE", get_milvus_index_type(config.index_mode),
                         get_milvus_index_params(config.index_mode)>>,
             !.loaded = TRUE], LAMBDA coll :
        [st EXCEPT
            !.trace = @ \o <<"create_collection", "insert", "create_index", "load">>,
            !.milvus = Put(st.milvus, collection_name, coll),
            !.value = [index_size |-> Len(entities),
                       collection_name |-> collection_name]]))))

index_to_milvus(data, config, fault, timestamp) ==
    With(CollectionNameOf(data, timestamp), LAMBDA collection_name :
    With([Begin EXCEPT !.collection = collection_name], LAMBDA s0 :
    With(IF fault = "connect" THEN Raise(Step(s0, "connect"), "MilvusException")
         ELSE Connect(s0), LAMBDA s1 :
    \* finally: connections.disconnect("default")
    Disconnect(
        IF s1.error # "" THEN s1
        \* int(embeddings_data.get("vector_dimension"))
        ELSE IF "vector_dimension" \notin DOMAIN data THEN Raise(s1, "TypeError")
        ELSE IF data.vector_dimension = 0
             THEN Raise(s1, "ValueError: missing vector_dimension")
        \* self._get_milvus_index_params(config), self a VectorStoreService
        ELSE IF "_get_milvus_index_params" \notin VectorStoreServiceMethods
             THEN Raise(s1, "AttributeError")
        ELSE MilvusCreateInsertIndexLoad(s1, data, config, collection_name)))))

----------------------------------------------------------------------------
(* VectorStoreService._index_to_chroma *)

\* A mutant of ChromaRecords: the last record is left out.
ChromaRecordsButLast(data) ==
    AsSeq([i \in 1..(Len(data.embeddings) - 1) |->
        [id |-> <<"doc", i - 1>>,
         document |-> Get(data.embeddings[i].metadata, "content", ""),
         metadata |-> data.embeddings[i].metadata,
         embedding |-> Get(data.embeddings[i], "embedding", <<>>)]])

\* The parallel arrays documents, metadatas, embeddings, ids (lines 270-278),
\* one record per position.
ChromaRecords(data) ==
    AsSeq([i \in 1..Len(data.embeddings) |->
        [id |-> <<"doc", i - 1>>,
         document |-> Get(data.embeddings[i].metadata, "content", ""),
         metadata |-> data.embeddings[i].metadata,
         embedding |-> Get(data.embeddings[i], "embedding", <<>>)]])

index_to_chroma(data, config, fault, timestamp) ==
    With(CollectionNameOf(data, timestamp), LAMBDA collection_name :
    With([Step(Begin, "chroma_client") EXCEPT !.collection = collection_name],
         LAMBDA s0 :
    \* try: client.delete_collection(name) except Exception: pass
    With([Step(s0, "delete_collection") EXCEPT
             !.chroma = Drop(s0.chroma, collection_name)], LAMBDA s1 :
    \* client.create_collection(name=...)
    With(IF fault = "call" THEN Raise(Step(s1, "create_collection"), "ChromaError")
         ELSE [Step(s1, "create_collection") EXCEPT
                  !.chroma = Put(s1.chroma, collection_name, <<>>)], LAMBDA s2 :
    With(ChromaRecords(data), LAMBDA records :
        \* collection.add(...): an empty list of ids is refused
        IF s2.error # "" THEN s2
        ELSE IF records = <<>> THEN Raise(Step(s2, "add"), "ValueError: empty ids")
        ELSE [Step(s2, "add") EXCEPT
                 !.chroma = Put(s2.chroma, collection_name,
                                s2.chroma[collection_name] \o records),
                 !.value = [index_size |-> Len(records),
                            collection_name |-> collection_name]])))))

----------------------------------------------------------------------------
(* VectorStoreService.index_embeddings *)

index_embeddings(data, config, fault, timestamp) ==
    \* _load_embeddings: the artifact file is opened and read first, and
    \* refused if it has no "embeddings" key
    IF "embeddings" \notin DOMAIN data
    THEN Raise(Step(Begin, "load_embeddings"), "ValueError: missing 'embeddings' key")
    ELSE
    With(IF config.provider = MILVUS
            THEN index_to_milvus(data, config, fault, timestamp)
         ELSE IF config.provider = CHROMA
            THEN index_to_chroma(data, config, fault, timestamp)
         ELSE Raise(Begin, "ValueError: unsupported provider"), LAMBDA r :
    With([r EXCEPT !.trace = <<"load_embeddings">> \o @], LAMBDA loaded :
        IF loaded.error # "" THEN loaded
        ELSE [loaded EXCEPT !.value =
                 [database |-> config.provider, index_mode |-> config.index_mode,
                  total_vectors |-> Len(data.embeddings),
                  index_size |-> loaded.value.index_size,
                  collection_name |-> loaded.value.collection_name]]))

----------------------------------------------------------------------------
(* The collaborators of SearchService: the embedding service and the       *)
(* stores' similarity queries. Vectors have two components, in tenths, and *)
(* length 1.0.                                                             *)

\* 1.0, in tenths (the 1 of "1 - distance").
One == 10

Queries == {"q1", "q2"}

\* EmbeddingService.create_single_embedding(query, provider, model): the
\* vector depends on the text and on the model that embeds it.
Embed(query, provider, model) ==
    LET v == IF provider = OpenAI /\ model = "text-embedding-3-small" THEN <<10, 0>>
             ELSE IF provider = HuggingFace /\ model = "bge-small" THEN <<0, 10>>
             ELSE IF provider = OpenAI /\ model = "text-embedding-ada-002"
                  THEN <<0, -10>>
             ELSE <<-10, 0>>
    IN  IF query = "q1" THEN v ELSE <<0 - v[2], v[1]>>

Dot(u, v) == u[1] * v[1] + u[2] * v[2]

\* Milvus' COSINE similarity of two unit vectors, in tenths.
Cosine(u, v) == Dot(u, v) \div One

\* Chroma's default distance (squared L2), in tenths.
L2Squared(u, v) ==
    ((u[1] - v[1]) * (u[1] - v[1]) + (u[2] - v[2]) * (u[2] - v[2])) \div One

\* The k best positions of a sequence of scores, best first.
RECURSIVE Rank(_, _, _)
Rank(scores, remaining, k) ==
    IF k = 0 \/ remaining = {} THEN <<>>
    ELSE LET best == CHOOSE i \in remaining : \A j \in remaining :
                        scores[i] > scores[j] \/ (scores[i] = scores[j] /\ i <= j)
         IN  <<best>> \o Rank(scores, remaining \ {best}, k - 1)

\* collection.search(data=[q], anns_field="vector", limit=top_k, ...)[0]
MilvusSearch(coll, query_embedding, top_k) ==
    With(AsSeq([i \in 1..Len(coll.entities) |->
                   Cosine(query_embedding, coll.entities[i].vector)]),
         LAMBDA scores :
    With(Rank(scores, DOMAIN scores, top_k), LAMBDA order :
        AsSeq([j \in 1..Len(order) |->
                  [score |-> scores[order[j]],
                   entity |-> coll.entities[order[j]]]])))

\* collection.query(query_embeddings=[q], n_results=top_k, include=[...]),
\* one record per position of its parallel arrays, nearest first.
ChromaQuery(records, query_embedding, top_k) ==
    With(AsSeq([i \in 1..Len(records) |->
                   L2Squared(query_embedding, records[i].embedding)]),
         LAMBDA distances :
    With(Rank(AsSeq([i \in DOMAIN distances |-> 0 - distances[i]]),
              DOMAIN distances, top_k), LAMBDA order :
        AsSeq([j \in 1..Len(order) |->
                  [distance |-> distances[order[j]],
                   document |-> records[order[j]].document,
                   metadata |-> records[order[j]].metadata]])))

----------------------------------------------------------------------------
(* SearchService._search_milvus *)

\* The condition of line 131.
MilvusKeeps(hit, threshold, word_count_threshold) ==
    /\ hit.score >= threshold
    /\ Get(hit.entity, "word_count", 0) >= word_count_threshold

\* The result built from a hit (lines 132-140).
MilvusResult(hit) ==
    [score |-> hit.score,
     text |-> Get(hit.entity, "content", ""),
     metadata |-> [source |-> Get(hit.entity, "document_name", <<>>),
                   page |-> Get(hit.entity, "page_number", ""),
                   chunk |-> Get(hit.entity, "chunk_id", "")]]

\* The loop of lines 129-140.
RECURSIVE FilterMilvus(_, _, _)
FilterMilvus(hits, threshold, word_count_threshold) ==
    IF hits = <<>> THEN <<>>
    ELSE (IF MilvusKeeps(Head(hits), threshold, word_count_threshold)
          THEN <<MilvusResult(Head(hits))>> ELSE <<>>)
         \o FilterMilvus(Tail(hits), threshold, word_count_threshold)

\* save_search_results: the file written, named after collection and time.
Saved(st, save_results, collection_id, timestamp) ==
    IF save_results
    THEN [Step(st, "save_search_results") EXCEPT
             !.value = [results |-> st.results,
                        saved_filepath |-> <<"search", collection_id, timestamp>>]]
    ELSE [st EXCEPT !.value = [results |-> st.results]]

search_milvus(query, collection_id, top_k, threshold, word_count_threshold, save_results, fault, timestamp) ==
    With([Connect(Begin) EXCEPT !.collection = collection_id], LAMBDA s0 :
    \* Collection(collection_id)
    IF ~Has(s0.milvus, collection_id)
    THEN Raise(Step(s0, "Collection"), "SchemaNotReadyException")
    ELSE
    With([s0.milvus[collection_id] EXCEPT !.loaded = TRUE], LAMBDA coll :
    With([s0 EXCEPT !.trace = @ \o <<"Collection", "load", "query">>,
                    !.milvus = Put(s0.milvus, collection_id, coll)], LAMBDA s1 :
    \* collection.query(expr="id >= 0", ..., limit=1)
    With(IF coll.entities = <<>> THEN <<>> ELSE <<coll.entities[1]>>,
         LAMBDA sample_entity :
    IF sample_entity = <<>> THEN Raise(s1, "ValueError: collection is empty")
    ELSE
    With([Step(s1, "create_single_embedding") EXCEPT
             !.embed = <<sample_entity[1].embedding_provider,
                         sample_entity[1].embedding_model>>], LAMBDA s2 :
    IF fault = "embed" THEN Raise(s2, "EmbeddingError")
    ELSE
    With(MilvusSearch(coll, Embed(query, s2.embed[1], s2.embed[2]), top_k),
         LAMBDA hits :
        Saved([Step(s2, "search") EXCEPT
                  !.hits = hits,
                  !.results = FilterMilvus(hits, threshold, word_count_threshold)],
              save_results, collection_id, timestamp)))))))

----------------------------------------------------------------------------
(* SearchService._search_chroma *)

DefaultProvider == OpenAI
DefaultModel == "text-embedding-ada-002"

\* A mutant of ChromaScore: the distance taken as the score.
ChromaScoreIsDistance(distance) == distance

\* score = 1 - results["distances"][0][i]
ChromaScore(distance) == One - distance

\* The condition of line 167.
ChromaKeeps(hit, threshold, word_count_threshold) ==
    /\ ChromaScore(hit.distance) >= threshold
    /\ Get(hit.metadata, "word_count", 0) >= word_count_threshold

\* The result built from position i of the parallel arrays (lines 168-176).
ChromaResult(hit) ==
    [score |-> ChromaScore(hit.distance),
     text |-> hit.document,
     metadata |-> [source |-> Get(hit.metadata, "document_name", <<>>),
                   page |-> Get(hit.metadata, "page_number", ""),
                   chunk |-> Get(hit.metadata, "chunk_id", "")]]

\* The loop of lines 163-176.
RECURSIVE FilterChroma(_, _, _)
FilterChroma(hits, threshold, word_count_threshold) ==
    IF hits = <<>> THEN <<>>
    ELSE (IF ChromaKeeps(Head(hits), threshold, word_count_threshold)
          THEN <<ChromaResult(Head(hits))>> ELSE <<>>)
         \o FilterChroma(Tail(hits), threshold, word_count_threshold)

search_chroma(query, collection_id, top_k, threshold, word_count_threshold, save_results, fault, timestamp) ==
    With([Step(Begin, "chroma_client") EXCEPT !.collection = collection_id],
         LAMBDA s0 :
    \* client.get_collection(collection_id)
    IF ~Has(s0.chroma, collection_id)
    THEN Raise(Step(s0, "get_collection"), "ValueError: no such collection")
    ELSE
    With(s0.chroma[collection_id], LAMBDA records :
    \* collection.get(include=['metadatas'])['metadatas']
    With(AsSeq([i \in 1..Len(records) |-> records[i].metadata]), LAMBDA metadatas :
    With([s0 EXCEPT !.trace = @ \o <<"get_collection", "get">>], LAMBDA s1 :
    IF metadatas = <<>> \/ DOMAIN metadatas[1] = {}
    THEN Raise(s1, "ValueError: collection has no metadata")
    ELSE
    With([Step(s1, "create_single_embedding") EXCEPT
             !.embed = <<Get(metadatas[1], "embedding_provider", DefaultProvider),
                         Get(metadatas[1], "embedding_model", DefaultModel)>>],
         LAMBDA s2 :
    IF fault = "embed" THEN Raise(s2, "EmbeddingError")
    ELSE
    With(ChromaQuery(records, Embed(query, s2.embed[1], s2.embed[2]), top_k),
         LAMBDA hits :
        Saved([Step(s2, "query") EXCEPT
                  !.hits = hits,
                  !.results = FilterChroma(hits, threshold, word_count_threshold)],
              save_results, collection_id, timestamp)))))))

\* SearchService.search
search(provider, query, collection_id, top_k, threshold, word_count_threshold, save_results, fault, timestamp) ==
    IF provider = MILVUS
    THEN search_milvus(query, collection_id, top_k, threshold,
                       word_count_threshold, save_results, fault, timestamp)
    ELSE IF provider = CHROMA
    THEN search_chroma(query, collection_id, top_k, threshold,
                       word_count_threshold, save_results, fault, timestamp)
    ELSE Raise(Begin, "ValueError: unsupported provider")

----------------------------------------------------------------------------
(* The administrative calls of the two services. *)

\* VectorStoreService.list_collections
list_collections(provider, fault) ==
    IF provider = MILVUS
    THEN LET s0 == Connect(Begin)
             s1 == IF fault = "call"
                   THEN Raise(Step(s0, "list_collections"), "MilvusException")
                   ELSE [Step(s0, "list_collections") EXCEPT
                            !.value = DOMAIN s0.milvus]
         IN  Disconnect(s1)
    ELSE IF provider = CHROMA
    THEN LET s0 == Step(Begin, "chroma_client")
         IN  IF fault = "call"
             THEN Raise(Step(s0, "list_collections"), "ChromaError")
             ELSE [Step(s0, "list_collections") EXCEPT !.value = DOMAIN s0.chroma]
    ELSE [Begin EXCEPT !.value = {}]

\* SearchService.list_collections
search_list_collections(provider, fault) ==
    IF provider = MILVUS
    THEN LET s0 == Connect(Begin)
             s1 == IF fault = "call"
                   THEN Raise(Step(s0, "list_collections"), "MilvusException")
                   ELSE [Step(s0, "list_collections") EXCEPT
                            !.value = {[id |-> n, name |-> n,
                                        count |-> Len(s0.milvus[n].entities)] :
                                       n \in DOMAIN s0.milvus}]
         IN  Disconnect(s1)
    ELSE IF provider = CHROMA
    THEN LET s0 == Step(Begin, "chroma_client")
         IN  IF fault = "call"
             THEN Raise(Step(s0, "list_collections"), "ChromaError")
             ELSE [Step(s0, "list_collections") EXCEPT
                      !.value = {[id |-> n, name |-> n,
                                  count |-> Len(s0.chroma[n])] :
                                 n \in DOMAIN s0.chroma}]
    ELSE [Begin EXCEPT !.value = {}]

\* VectorStoreService.delete_collection
delete_collection(provider, collection_name, fault) ==
    IF provider = MILVUS
    THEN LET s0 == [Connect(Begin) EXCEPT !.collection = collection_name]
             \* utility.drop_collection: dropping a missing collection is no error
             s1 == IF fault = "call"
                   THEN Raise(Step(s0, "drop_collection"), "MilvusException")
                   ELSE [Step(s0, "drop_collection") EXCEPT
                            !.milvus = Drop(s0.milvus, collection_name),
                            !.value = TRUE]
         IN  Disconnect(s1)
    ELSE IF provider = CHROMA
    THEN LET s0 == [Step(Begin, "chroma_client") EXCEPT
                       !.collection = collection_name]
             s1 == Step(s0, "delete_collection")
         IN  \* except Exception: return False
             IF fault = "call" \/ ~Has(s0.chroma, collection_name)
             THEN [s1 EXCEPT !.value = FALSE]
             ELSE [s1 EXCEPT !.chroma = Drop(s0.chroma, collection_name),
                             !.value = TRUE]
    ELSE [Begin EXCEPT !.collection = collection_name, !.value = FALSE]

EmptyDict == [k \in {} |-> 0]

\* VectorStoreService.get_collection_info
get_collection_info(provider, collection_name, fault) ==
    IF provider = MILVUS
    THEN LET s0 == [Connect(Begin) EXCEPT !.collection = collection_name]
             s1 == Step(s0, "Collection")
             s2 == IF fault = "call" THEN Raise(s1, "MilvusException")
                   ELSE IF ~Has(s0.milvus, collection_name)
                        THEN Raise(s1, "SchemaNotReadyException")
                   ELSE [s1 EXCEPT !.value =
                            [name |-> collection_name,
                             num_entities |-> Len(s0.milvus[collection_name].entities),
                             schema |-> "milvus schema"]]
         IN  Disconnect(s2)
    ELSE IF provider = CHROMA
    THEN LET s0 == [Step(Begin, "chroma_client") EXCEPT
                       !.collection = collection_name]
             s1 == Step(s0, "get_collection")
         IN  \* except Exception: return {}
             IF fault = "call" \/ ~Has(s0.chroma, collection_name)
             THEN [s1 EXCEPT !.value = EmptyDict]
             ELSE [s1 EXCEPT !.value =
                      [name |-> collection_name,
                       num_entities |-> Len(s0.chroma[collection_name]),
                       schema |-> "content, embedding, metadata"]]
    ELSE [Begin EXCEPT !.collection = collection_name, !.value = EmptyDict]

----------------------------------------------------------------------------
(* The calls. Each action is one whole call of a public method; Return is  *)
(* the caller taking the result, after which the next call can be made.    *)

\* The arguments of a call, as `last` keeps them.
NoArgs ==
    [art |-> 0, mode |-> "", fault |-> "none", query |-> "", top_k |-> 0,
     threshold |-> 0, word_count_threshold |-> 0, save_results |-> FALSE]

\* The record of a call: its arguments, the stores as it found them, and
\* what it did and returned.
LastOf(op, provider, args, r) ==
    [op |-> op, provider |-> provider, args |-> args, clock |-> clock,
     before |-> [chroma |-> chroma, milvus |-> milvus],
     collection |-> r.collection, trace |-> r.trace, error |-> r.error,
     value |-> r.value, embed |-> r.embed, hits |-> r.hits, results |-> r.results]

NoCall ==
    [op |-> "none", provider |-> "", args |-> NoArgs, clock |-> 0,
     before |-> [chroma |-> NoCollections, milvus |-> NoCollections],
     collection |-> <<>>, trace |-> <<>>, error |-> "", value |-> <<>>,
     embed |-> <<>>, hits |-> <<>>, results |-> <<>>]

\* The history kept for the collections that exist.
Existing(ch, mi) ==
    {<<CHROMA, n>> : n \in DOMAIN ch} \cup {<<MILVUS, n>> : n \in DOMAIN mi}

Pruned(ib, ch, mi) == [k \in DOMAIN ib \cap Existing(ch, mi) |-> ib[k]]

Finish(r, l, ib) ==
    /\ chroma' = r.chroma
    /\ milvus' = r.milvus
    /\ connected' = r.connected
    /\ indexedBy' = Pruned(ib, r.chroma, r.milvus)
    /\ last' = l
    /\ UNCHANGED <<san, clock, parse, scan, threads>>

MissingName == <<"n", "o", "n", "e">>

Thresholds == {0, 7}
WordCountThresholds == {0, 20}

IndexEmbeddings ==
    /\ last = NoCall
    /\ \E a \in ArtifactIds, config \in Configs,
          fault \in {"none", "connect", "call"} :
        /\ fault = "connect" => config.provider = MILVUS
        /\ fault = "call" => config.provider = CHROMA
        /\ \E r \in {index_embeddings(Artifacts[a], config, fault,
                                      Timestamp(clock))} :
            /\ Cardinality(DOMAIN r.chroma) <= MaxCollections
            /\ Finish(r,
                      LastOf("index", config.provider,
                             [NoArgs EXCEPT !.art = a, !.mode = config.index_mode,
                                            !.fault = fault], r),
                      \* the artifact a collection was last filled from
                      IF r.error = ""
                      THEN Put(indexedBy, <<config.provider, r.collection>>, a)
                      ELSE Drop(indexedBy, <<CHROMA, r.collection>>))

SearchOptions ==
    { [fault |-> "none", save_results |-> FALSE],
      [fault |-> "none", save_results |-> TRUE],
      [fault |-> "embed", save_results |-> FALSE] }

CollectionIds(provider) ==
    IF provider = MILVUS THEN DOMAIN milvus \cup {MissingName}
    ELSE IF provider = CHROMA THEN DOMAIN chroma \cup {MissingName}
    ELSE {MissingName}

Search ==
    /\ last = NoCall
    /\ \E provider \in Providers, query \in Queries, top_k \in 1..MaxTopK,
          threshold \in Thresholds,
          word_count_threshold \in WordCountThresholds, opt \in SearchOptions :
        \E collection_id \in CollectionIds(provider) :
          \E r \in {search(provider, query, collection_id, top_k, threshold,
                           word_count_threshold, opt.save_results, opt.fault,
                           Timestamp(clock))} :
            Finish(r,
                   LastOf("search", provider,
                          [NoArgs EXCEPT !.query = query, !.top_k = top_k,
                                         !.threshold = threshold,
                                         !.word_count_threshold = word_count_threshold,
                                         !.save_results = opt.save_results,
                                         !.fault = opt.fault], r),
                   indexedBy)

ListCollections ==
    /\ last = NoCall
    /\ \E provider \in Providers, fault \in {"none", "call"} :
        \E r \in {list_collections(provider, fault)} :
            Finish(r, LastOf("list", provider, [NoArgs EXCEPT !.fault = fault], r),
                   indexedBy)

SearchListCollections ==
    /\ last = NoCall
    /\ \E provider \in Providers, fault \in {"none", "call"} :
        \E r \in {search_list_collections(provider, fault)} :
            Finish(r, LastOf("search_list", provider,
                             [NoArgs EXCEPT !.fault = fault], r),
                   indexedBy)

DeleteCollection ==
    /\ last = NoCall
    /\ \E provider \in Providers, fault \in {"none", "call"} :
        \E collection_name \in CollectionIds(provider) :
          \E r \in {delete_collection(provider, collection_name, fault)} :
            Finish(r, LastOf("delete", provider, [NoArgs EXCEPT !.fault = fault], r),
                   indexedBy)

GetCollectionInfo ==
    /\ last = NoCall
    /\ \E provider \in Providers, fault \in {"none", "call"} :
        \E collection_name \in CollectionIds(provider) :
          \E r \in {get_collection_info(provider, collection_name, fault)} :
            Finish(r, LastOf("info", provider, [NoArgs EXCEPT !.fault = fault], r),
                   indexedBy)

\* The caller takes the result of the call.
Return ==
    /\ last # NoCall
    /\ last' = NoCall
    /\ UNCHANGED <<san, chroma, milvus, connected, clock, indexedBy, parse, scan, threads>>

\* A second passes.
Tick ==
    /\ last = NoCall
    /\ clock < MaxClock
    /\ clock' = clock + 1
    /\ UNCHANGED <<san, chroma, milvus, connected, indexedBy, last, parse, scan, threads>>

----------------------------------------------------------------------------
(* The initial state. The Milvus database is a file that outlives the      *)
(* process: it starts with two collections of the schema of lines 150-169, *)
(* one holding the entities of the first artifact, one holding none.       *)

SeedFull == <<"k", "b", "1">>
SeedEmpty == <<"k", "b", "0">>

MilvusSeed ==
    Put(Put(NoCollections, SeedFull,
            [MilvusInsert(EmptyMilvusCollection, MilvusEntities(Artifacts[1]))
                EXCEPT !.index = <<"COSINE", "FLAT", "{}">>, !.loaded = TRUE]),
        SeedEmpty, EmptyMilvusCollection)

Init ==
    /\ san = SanIdle
    /\ chroma = NoCollections
    /\ milvus = MilvusSeed
    /\ connected = FALSE
    /\ clock = 0
    /\ indexedBy = Put(Put(NoCollections, <<MILVUS, SeedFull>>, 1),
                       <<MILVUS, SeedEmpty>>, 3)
    /\ last = NoCall
    /\ parse = ParseIdle
    /\ scan = ScanIdle
    /\ threads = NoThreads

Next ==
    \/ IndexEmbeddings
    \/ Search
    \/ ListCollections
    \/ SearchListCollections
    \/ DeleteCollection
    \/ GetCollectionInfo
    \/ Return
    \/ Tick

Spec == Init /\ [][Next]_vars

----------------------------------------------------------------------------
(* The legalizer alone. *)

SanInit ==
    /\ san \in {[pc |-> "start", raw |-> x, once |-> <<>>, twice |-> <<>>] :
                x \in SanInputs}
    /\ chroma = NoCollections
    /\ milvus = NoCollections
    /\ connected = FALSE
    /\ clock = 0
    /\ indexedBy = NoCollections
    /\ last = NoCall
    /\ parse = ParseIdle
    /\ scan = ScanIdle
    /\ threads = NoThreads

SanNext == SanitizeOnce \/ SanitizeTwice

SpecSanitize == SanInit /\ [][SanNext]_vars

----------------------------------------------------------------------------
(* services/parsing_service.py: text. A file's content is a sequence of    *)
(* characters in which "\n" ends a line.                                   *)

Newline == "\n"
Tab == "\t"
Whitespace == {" ", Tab, Newline}

\* The k-th smallest element of a set of numbers.
Nth(S, k) == CHOOSE x \in S : Cardinality({y \in S : y < x}) = k - 1

\* str.split('\n')
Split(text) ==
    With({0} \cup {i \in 1..Len(text) : text[i] = Newline} \cup {Len(text) + 1},
         LAMBDA cuts :
        AsSeq([k \in 1..(Cardinality(cuts) - 1) |->
                  SubSeq(text, Nth(cuts, k) + 1, Nth(cuts, k + 1) - 1)]))

\* '\n'.join(lines)
Join(lines) ==
    Flatten([i \in 1..Len(lines) |->
                IF i = 1 THEN lines[i] ELSE <<Newline>> \o lines[i]])

\* str.strip()
Strip(s) ==
    With({i \in 1..Len(s) : s[i] \notin Whitespace}, LAMBDA idx :
        IF idx = {} THEN <<>> ELSE SubSeq(s, Min(idx), Max(idx)))

\* str.startswith(prefix)
StartsWith(s, prefix) ==
    Len(prefix) <= Len(s) /\ SubSeq(s, 1, Len(prefix)) = prefix

\* len(line) - len(line.lstrip('#'))
LeadingHashes(s) ==
    With({i \in 1..Len(s) : s[i] # "#"}, LAMBDA idx :
        IF idx = {} THEN Len(s) ELSE Min(idx) - 1)

\* line.lstrip('#')
LStripHashes(s) == SubSeq(s, LeadingHashes(s) + 1, Len(s))

\* line.startswith(('- ', '* ', '+ '))
IsBulleted(s) ==
    \E c \in {"-", "*", "+"} : StartsWith(s, <<c, " ">>)

\* re.match(r'^\d+\.', line)
IsNumbered(s) ==
    \E k \in 1..(Len(s) - 1) :
        /\ \A j \in 1..k : s[j] \in Digits
        /\ s[k + 1] = "."

\* The grave accent (U+0060), and the marker of a fenced code block.
Backtick == "U+0060"
Fence == <<Backtick, Backtick, Backtick>>

----------------------------------------------------------------------------
(* ParsingService._parse_markdown_all_text, _parse_markdown_by_sections *)

parse_markdown_all_text(content) ==
    << [type |-> "text", content |-> content, section |-> "all"] >>

Introduction == <<"I", "n", "t", "r", "o", "d", "u", "c", "t", "i", "o", "n">>

\* The section block of lines 215-220 and 231-236.
SectionOf(current_section) ==
    [type |-> "section", title |-> current_section.title,
     content |-> Join(current_section.content),
     level |-> Get(current_section, "level", 1)]

\* The loop of lines 210-227 from line i on, then lines 230-236.
RECURSIVE BySectionsFrom(_, _, _, _)
BySectionsFrom(lines, i, current_section, sections) ==
    IF i > Len(lines)
    THEN IF current_section.content # <<>>
         THEN Append(sections, SectionOf(current_section)) ELSE sections
    ELSE IF StartsWith(lines[i], <<"#">>)
    THEN BySectionsFrom(lines, i + 1,
             [title |-> Strip(LStripHashes(lines[i])), content |-> <<>>,
              level |-> LeadingHashes(lines[i])],
             IF current_section.content # <<>>
             THEN Append(sections, SectionOf(current_section)) ELSE sections)
    ELSE BySectionsFrom(lines, i + 1,
             [current_section EXCEPT !.content = Append(@, lines[i])], sections)

parse_markdown_by_sections(content) ==
    BySectionsFrom(Split(content), 1,
                   [title |-> Introduction, content |-> <<>>], <<>>)

----------------------------------------------------------------------------
(* ParsingService._parse_markdown_structured *)

\* Where a `while i < len(lines) and not Stop(i)` loop started at i leaves i.
FirstFrom(n, i, Stop(_)) ==
    With({j \in i..n : Stop(j)}, LAMBDA stops :
        IF stops = {} THEN n + 1 ELSE Min(stops))

\* A mutant of IsListItem: the numbered pattern is left out.
IsListItemBulletedOnly(line) == IsBulleted(line)

\* The condition of lines 283 and 285-286, on a stripped line.
IsListItem(line) == IsBulleted(line) \/ IsNumbered(line)

\* A mutant of InParagraph: a paragraph runs on to the next blank line.
InParagraphUntilBlank(raw) == Strip(raw) # <<>>

\* The condition of line 301, on a line as it is in the file.
InParagraph(raw) ==
    With(Strip(raw), LAMBDA t :
        /\ t # <<>>
        /\ ~StartsWith(t, <<"#">>) /\ ~IsBulleted(t) /\ ~StartsWith(t, Fence)
        /\ ~IsNumbered(t))

\* The loop of lines 254-312 from position i on.
RECURSIVE StructuredFrom(_, _)
StructuredFrom(lines, i) ==
    IF i > Len(lines) THEN <<>>
    ELSE
    With(Strip(lines[i]), LAMBDA line :
    IF StartsWith(line, <<"#">>)
    THEN << [type |-> "heading", content |-> Strip(LStripHashes(line)),
             level |-> LeadingHashes(line)] >>
         \o StructuredFrom(lines, i + 1)
    ELSE IF StartsWith(line, Fence)
    THEN With(FirstFrom(Len(lines), i + 1,
                        LAMBDA j : StartsWith(Strip(lines[j]), Fence)),
              LAMBDA close :
         With(SubSeq(lines, i + 1, close - 1), LAMBDA code_block :
             (IF code_block # <<>>
              THEN << [type |-> "code_block", content |-> Join(code_block),
                       language |-> SubSeq(line, 4, Len(line))] >>
              ELSE <<>>)
             \o StructuredFrom(lines, close + 1)))
    ELSE IF IsListItem(line)
    THEN With(FirstFrom(Len(lines), i, LAMBDA j : ~IsListItem(Strip(lines[j]))),
              LAMBDA stop :
         With(AsSeq([k \in 1..(stop - i) |-> Strip(lines[i + k - 1])]),
              LAMBDA list_items :
             IF list_items # <<>>
             THEN << [type |-> "list", content |-> list_items,
                      list_type |-> IF IsNumbered(list_items[1]) THEN "ordered"
                                    ELSE "unordered"] >>
                  \o StructuredFrom(lines, stop)
             ELSE StructuredFrom(lines, stop + 1)))
    ELSE IF line # <<>>
    THEN With(FirstFrom(Len(lines), i, LAMBDA j : ~InParagraph(lines[j])),
              LAMBDA stop :
         With(SubSeq(lines, i, stop - 1), LAMBDA paragraph_lines :
             IF paragraph_lines # <<>>
             THEN << [type |-> "paragraph", content |-> Join(paragraph_lines)] >>
                  \o StructuredFrom(lines, stop)
             ELSE StructuredFrom(lines, stop + 1)))
    ELSE StructuredFrom(lines, i + 1))

parse_markdown_structured(content) == StructuredFrom(Split(content), 1)

----------------------------------------------------------------------------
(* ParsingService._parse_all_text, _parse_by_pages, _parse_by_titles,      *)
(* _parse_text_and_tables. A page map is a sequence of [page, text].       *)

parse_all_text(page_map) ==
    AsSeq([i \in 1..Len(page_map) |->
              [type |-> "Text", content |-> page_map[i].text,
               page |-> page_map[i].page]])

parse_by_pages(page_map) ==
    AsSeq([i \in 1..Len(page_map) |->
              [type |-> "Page", page |-> page_map[i].page,
               content |-> page_map[i].text]])

\* len(line.strip()) < 60
TitleMaxLen == 60

\* str.isupper(): a cased character, and no lower-case one.
IsUpper(s) ==
    /\ \E i \in DOMAIN s : s[i] \in Upper
    /\ \A i \in DOMAIN s : s[i] \notin Lower

\* The condition of line 437.
IsTitle(line) == Len(Strip(line)) < TitleMaxLen /\ IsUpper(line)

\* current_title = None
NoTitle == <<>>

\* The lines of the page map in the order of the two loops of lines 433-435,
\* each with the page it is on.
PageLines(page_map) ==
    Flatten([i \in 1..Len(page_map) |->
                With(Split(page_map[i].text), LAMBDA lines :
                    AsSeq([k \in 1..Len(lines) |->
                              [page |-> page_map[i].page, line |-> lines[k]]]))])

TitledSection(current_title, current_content, page) ==
    [type |-> "section", title |-> current_title,
     content |-> Join(current_content), page |-> page]

\* The loops of lines 433-448 from the i-th line on, then lines 451-457.
RECURSIVE ByTitlesFrom(_, _, _, _, _, _)
ByTitlesFrom(page_lines, i, last_page, current_title, current_content, parsed_content) ==
    IF i > Len(page_lines)
    THEN IF current_title # NoTitle
         THEN Append(parsed_content,
                     TitledSection(current_title, current_content, last_page))
         ELSE parsed_content
    ELSE IF IsTitle(page_lines[i].line)
    THEN ByTitlesFrom(page_lines, i + 1, last_page,
             Strip(page_lines[i].line), <<>>,
             IF current_title # NoTitle
             THEN Append(parsed_content,
                         TitledSection(current_title, current_content,
                                       page_lines[i].page))
             ELSE parsed_content)
    ELSE ByTitlesFrom(page_lines, i + 1, last_page, current_title,
             Append(current_content, page_lines[i].line), parsed_content)

parse_by_titles(page_map) ==
    ByTitlesFrom(PageLines(page_map), 1, page_map[Len(page_map)].page,
                 NoTitle, <<>>, <<>>)

\* A mutant of LooksLikeTable: the tab character is left out.
LooksLikeTablePipeOnly(content) ==
    \E i \in DOMAIN content : content[i] = "|"

\* '|' in content or '\t' in content
LooksLikeTable(content) ==
    \E i \in DOMAIN content : content[i] \in {"|", Tab}

parse_text_and_tables(page_map) ==
    AsSeq([i \in 1..Len(page_map) |->
              [type |-> IF LooksLikeTable(page_map[i].text) THEN "table" ELSE "text",
               content |-> page_map[i].text, page |-> page_map[i].page]])

----------------------------------------------------------------------------
(* ParsingService.parse_pdf, parse_pdf_with_camelot, parse_markdown,       *)
(* parse_document. A call's record holds the I/O it has done (trace), the  *)
(* exception raised ("" for none) and the document returned.               *)

ParseBegin == [trace |-> <<>>, error |-> "", value |-> <<>>]

\* Lines 333-344 (and 65-76): the document is opened and every page read.
PageMap(file) ==
    AsSeq([i \in 1..Len(file.pages) |-> [page |-> i, text |-> file.pages[i]]])

OpenAndReadPages(st) ==
    [st EXCEPT !.trace = @ \o <<"fitz.open", "get_text", "close">>]

parse_pdf(st, file, method, metadata) ==
    With(OpenAndReadPages(st), LAMBDA s0 :
    With(PageMap(file), LAMBDA page_map :
        IF page_map = <<>>
        THEN Raise(s0, "ValueError: No content extracted from PDF.")
        ELSE IF method \notin {"all_text", "by_pages", "by_titles", "text_and_tables"}
        THEN Raise(s0, "ValueError: Unsupported parsing method")
        ELSE [s0 EXCEPT !.value =
                 [metadata |-> [filename |-> Get(metadata, "filename", ""),
                                total_pages |-> Len(page_map),
                                parsing_method |-> method,
                                parsing_tool |-> "pymupdf",
                                timestamp |-> "now"],
                  content |-> IF method = "all_text" THEN parse_all_text(page_map)
                              ELSE IF method = "by_pages"
                                   THEN parse_by_pages(page_map)
                              ELSE IF method = "by_titles"
                                   THEN parse_by_titles(page_map)
                              ELSE parse_text_and_tables(page_map)]]))

\* The block of lines 86-92 and 105-111.
TableBlock(table) ==
    [type |-> "table", content |-> table.df, accuracy |-> table.accuracy,
     whitespace |-> table.whitespace, page |-> table.page]

\* A mutant of TableBlocks: the tables in the reverse order.
TableBlocksReversed(tables) ==
    AsSeq([i \in 1..Len(tables) |-> TableBlock(tables[Len(tables) + 1 - i])])

TableBlocks(tables) == AsSeq([i \in 1..Len(tables) |-> TableBlock(tables[i])])

\* The blocks of lines 96-101.
TextBlocks(page_map) ==
    AsSeq([i \in 1..Len(page_map) |->
              [type |-> "text", content |-> page_map[i].text,
               page |-> page_map[i].page]])

parse_pdf_with_camelot(st, file, method, metadata) ==
    With(OpenAndReadPages(st), LAMBDA s0 :
    With(PageMap(file), LAMBDA page_map :
    \* tables = camelot.read_pdf(file_path, pages='all')
    With(Step(s0, "camelot.read_pdf"), LAMBDA s1 :
    With(file.tables, LAMBDA tables :
        IF method \notin {"tables_only", "text_and_tables"}
        THEN parse_pdf(s1, file, method, metadata)
        ELSE [s1 EXCEPT !.value =
                 [metadata |-> [filename |-> Get(metadata, "filename", ""),
                                total_pages |-> Len(page_map),
                                parsing_method |-> method,
                                parsing_tool |-> "camelot",
                                total_tables |-> Len(tables),
                                timestamp |-> "now"],
                  content |-> IF method = "tables_only" THEN TableBlocks(tables)
                              ELSE TextBlocks(page_map) \o TableBlocks(tables)]]))))

parse_markdown(st, file, method, metadata) ==
    \* with open(file_path, 'r', encoding='utf-8') as f: content = f.read()
    With([st EXCEPT !.trace = @ \o <<"open", "read">>], LAMBDA s0 :
    With(file.content, LAMBDA content :
        IF method \notin {"all_text", "by_sections", "structured"}
        THEN Raise(s0, "ValueError: Unsupported markdown parsing method")
        ELSE [s0 EXCEPT !.value =
                 [metadata |-> [filename |-> Get(metadata, "filename", ""),
                                parsing_method |-> method,
                                parsing_tool |-> "markdown",
                                content_length |-> Len(content),
                                timestamp |-> "now"],
                  content |-> IF method = "all_text"
                                   THEN parse_markdown_all_text(content)
                              ELSE IF method = "by_sections"
                                   THEN parse_markdown_by_sections(content)
                              ELSE parse_markdown_structured(content)]]))

parse_document(file, file_type, tool, method, metadata) ==
    IF file_type = "pdf"
    THEN IF tool = "camelot"
         THEN parse_pdf_with_camelot(ParseBegin, file, method, metadata)
         ELSE parse_pdf(ParseBegin, file, method, metadata)
    ELSE IF file_type = "markdown"
    THEN parse_markdown(ParseBegin, file, method, metadata)
    ELSE Raise(ParseBegin, "ValueError: Unsupported file type")

----------------------------------------------------------------------------
(* The parsing service applied to a bounded family of files. *)

MaxMdLines == 4
MaxPages == 2
MaxPageLines == 2
MaxTables == 2

\* The lines a Markdown file is made of.
MdLines ==
    { <<>>,
      <<"#", " ", "A">>,
      <<"#", "#", "b">>,
      <<"t">>,
      <<"-", " ", "x">>,
      <<"1", ".", "y">>,
      Fence,
      Fence \o <<"p", "y">>,
      <<" ", "*", " ", "z">> }

\* The lines a page of a PDF file is made of.
PdfLines ==
    { <<"A", "B">>,
      <<" ", "C", " ">>,
      <<"b">>,
      <<"A", "|", "b">>,
      <<"x", Tab, "y">>,
      Rep("A", TitleMaxLen) }

LinesUpTo(choices, n) == UNION {[1..k -> choices] : k \in 1..n}

MdFiles ==
    {[kind |-> "markdown", content |-> Join(lines)] :
        lines \in LinesUpTo(MdLines, MaxMdLines)}

\* The tables camelot finds, in the order it returns them.
Tables ==
    << [df |-> "t1", accuracy |-> 99, whitespace |-> 3, page |-> 2],
       [df |-> "t2", accuracy |-> 80, whitespace |-> 10, page |-> 1],
       [df |-> "t3", accuracy |-> 70, whitespace |-> 20, page |-> 2] >>

PageTexts == {Join(lines) : lines \in LinesUpTo(PdfLines, MaxPageLines)}

PdfFiles ==
    {[kind |-> "pdf", pages |-> pages, tables |-> SubSeq(Tables, 1, t)] :
        pages \in UNION {[1..k -> PageTexts] : k \in 1..MaxPages},
        t \in 0..MaxTables}
    \cup {[kind |-> "pdf", pages |-> <<>>, tables |-> <<>>]}

FileTypes == {"pdf", "markdown", "docx"}
Tools == {"pymupdf", "camelot", "markdown"}
Methods ==
    {"all_text", "by_pages", "by_titles", "text_and_tables", "tables_only",
     "by_sections", "structured", "bogus"}

\* The metadata of the caller.
CallerMetadata == [filename |-> "test", original_file_size |-> 1024]

ParseDocument ==
    /\ parse.pc = "start"
    /\ \E file_type \in FileTypes, tool \in Tools, method \in Methods :
        \* the file is of the type the caller says, and the tool is one for it
        /\ file_type \in {"pdf", "markdown"} => parse.file.kind = file_type
        /\ (tool = "markdown") = (file_type # "pdf")
        /\ file_type = "docx" => method = "all_text"
        /\ \E r \in {parse_document(parse.file, file_type, tool, method,
                                    CallerMetadata)} :
            parse' = [pc |-> "done", file |-> parse.file, file_type |-> file_type,
                      tool |-> tool, method |-> method, trace |-> r.trace,
                      error |-> r.error, value |-> r.value]
    /\ UNCHANGED <<san, chroma, milvus, connected, clock, indexedBy, last, scan,
                   threads>>

ParseInit ==
    /\ parse \in {[pc |-> "start", file |-> f] : f \in MdFiles \cup PdfFiles}
    /\ san = SanIdle
    /\ chroma = NoCollections
    /\ milvus = NoCollections
    /\ connected = FALSE
    /\ clock = 0
    /\ indexedBy = NoCollections
    /\ last = NoCall
    /\ scan = ScanIdle
    /\ threads = NoThreads

ParseNext == ParseDocument

SpecParse == ParseInit /\ [][ParseNext]_vars

----------------------------------------------------------------------------
(* ParsingService._parse_markdown_structured, step by step: `scan` holds    *)
(* the locals of the function. i is the index of the code, from 0; start is *)
(* the value i had when the current iteration of the outer loop began.      *)

\* lines[i] of the code.
ScanLine == scan.lines[scan.i + 1]

\* i < len(lines)
ScanInRange == scan.i < Len(scan.lines)

\* A mutant of Advance: the index is left where it is.
AdvanceByNone(i) == i

\* i += 1
Advance(i) == i + 1

\* The outer loop takes up a new iteration at index i.
Iterate(i) == [scan EXCEPT !.pc = "outer", !.i = i, !.start = i, !.items = <<>>]

\* Lines 258-265, then line 312.
ScanHeading ==
    /\ scan.pc = "outer" /\ ScanInRange
    /\ StartsWith(Strip(ScanLine), <<"#">>)
    /\ scan' = [Iterate(Advance(scan.i)) EXCEPT !.structured_content =
                   Append(@, [type |-> "heading",
                              content |-> Strip(LStripHashes(Strip(ScanLine))),
                              level |-> LeadingHashes(Strip(ScanLine))])]
    /\ UNCHANGED <<san, chroma, milvus, connected, clock, indexedBy, last, parse,
                   threads>>

\* Lines 268-270: the opening marker.
ScanFence ==
    /\ scan.pc = "outer" /\ ScanInRange
    /\ ~StartsWith(Strip(ScanLine), <<"#">>)
    /\ StartsWith(Strip(ScanLine), Fence)
    /\ scan' = [scan EXCEPT !.pc = "code", !.line = Strip(ScanLine),
                            !.i = Advance(@), !.items = <<>>]
    /\ UNCHANGED <<san, chroma, milvus, connected, clock, indexedBy, last, parse,
                   threads>>

\* Lines 271-273: one iteration of the inner loop.
ScanCodeLine ==
    /\ scan.pc = "code"
    /\ ScanInRange /\ ~StartsWith(Strip(ScanLine), Fence)
    /\ scan' = [scan EXCEPT !.items = Append(@, ScanLine), !.i = Advance(@)]
    /\ UNCHANGED <<san, chroma, milvus, connected, clock, indexedBy, last, parse,
                   threads>>

\* Lines 275-280, then line 312.
ScanCodeEnd ==
    /\ scan.pc = "code"
    /\ ~(ScanInRange /\ ~StartsWith(Strip(ScanLine), Fence))
    /\ scan' = [Iterate(Advance(scan.i)) EXCEPT !.structured_content =
                   IF scan.items # <<>>
                   THEN Append(@, [type |-> "code_block",
                                   content |-> Join(scan.items),
                                   language |-> SubSeq(scan.line, 4, Len(scan.line))])
                   ELSE @]
    /\ UNCHANGED <<san, chroma, milvus, connected, clock, indexedBy, last, parse,
                   threads>>

\* Lines 283-284: the list branch is selected.
ScanList ==
    /\ scan.pc = "outer" /\ ScanInRange
    /\ ~StartsWith(Strip(ScanLine), <<"#">>)
    /\ ~StartsWith(Strip(ScanLine), Fence)
    /\ IsListItem(Strip(ScanLine))
    /\ scan' = [scan EXCEPT !.pc = "list", !.items = <<>>]
    /\ UNCHANGED <<san, chroma, milvus, connected, clock, indexedBy, last, parse,
                   threads>>

\* Lines 285-288: one iteration of the inner loop.
ScanListItem ==
    /\ scan.pc = "list"
    /\ ScanInRange /\ IsListItem(Strip(ScanLine))
    /\ scan' = [scan EXCEPT !.items = Append(@, Strip(ScanLine)), !.i = Advance(@)]
    /\ UNCHANGED <<san, chroma, milvus, connected, clock, indexedBy, last, parse,
                   threads>>

\* Lines 290-296: the block and `continue`, or else line 312.
ScanListEnd ==
    /\ scan.pc = "list"
    /\ ~(ScanInRange /\ IsListItem(Strip(ScanLine)))
    /\ scan' = IF scan.items # <<>>
               THEN [Iterate(scan.i) EXCEPT !.structured_content =
                        Append(@, [type |-> "list", content |-> scan.items,
                                   list_type |-> IF IsNumbered(scan.items[1])
                                                 THEN "ordered" ELSE "unordered"])]
               ELSE Iterate(Advance(scan.i))
    /\ UNCHANGED <<san, chroma, milvus, connected, clock, indexedBy, last, parse,
                   threads>>

\* Lines 299-300: the paragraph branch is selected.
ScanParagraph ==
    /\ scan.pc = "outer" /\ ScanInRange
    /\ ~StartsWith(Strip(ScanLine), <<"#">>)
    /\ ~StartsWith(Strip(ScanLine), Fence)
    /\ ~IsListItem(Strip(ScanLine))
    /\ Strip(ScanLine) # <<>>
    /\ scan' = [scan EXCEPT !.pc = "paragraph", !.items = <<>>]
    /\ UNCHANGED <<san, chroma, milvus, connected, clock, indexedBy, last, parse,
                   threads>>

\* Lines 301-303: one iteration of the inner loop.
ScanParagraphLine ==
    /\ scan.pc = "paragraph"
    /\ ScanInRange /\ InParagraph(ScanLine)
    /\ scan' = [scan EXCEPT !.items = Append(@, ScanLine), !.i = Advance(@)]
    /\ UNCHANGED <<san, chroma, milvus, connected, clock, indexedBy, last, parse,
                   threads>>

\* Lines 305-310: the block and `continue`, or else line 312.
ScanParagraphEnd ==
    /\ scan.pc = "paragraph"
    /\ ~(ScanInRange /\ InParagraph(ScanLine))
    /\ scan' = IF scan.items # <<>>
               THEN [Iterate(scan.i) EXCEPT !.structured_content =
                        Append(@, [type |-> "paragraph",
                                   content |-> Join(scan.items)])]
               ELSE Iterate(Advance(scan.i))
    /\ UNCHANGED <<san, chroma, milvus, connected, clock, indexedBy, last, parse,
                   threads>>

\* A blank line: no branch is taken, line 312.
ScanBlank ==
    /\ scan.pc = "outer" /\ ScanInRange
    /\ Strip(ScanLine) = <<>>
    /\ scan' = Iterate(Advance(scan.i))
    /\ UNCHANGED <<san, chroma, milvus, connected, clock, indexedBy, last, parse,
                   threads>>

\* Line 254 is false: return structured_content (line 314).
ScanReturn ==
    /\ scan.pc = "outer" /\ ~ScanInRange
    /\ scan' = [scan EXCEPT !.pc = "returned"]
    /\ UNCHANGED <<san, chroma, milvus, connected, clock, indexedBy, last, parse,
                   threads>>

\* Lines 250-252.
ScanInit ==
    /\ scan \in {[pc |-> "outer", lines |-> Split(f.content), i |-> 0,
                  start |-> 0, line |-> <<>>, items |-> <<>>,
                  structured_content |-> <<>>] : f \in MdFiles}
    /\ parse = ParseIdle
    /\ threads = NoThreads
    /\ san = SanIdle
    /\ chroma = NoCollections
    /\ milvus = NoCollections
    /\ connected = FALSE
    /\ clock = 0
    /\ indexedBy = NoCollections
    /\ last = NoCall

ScanNext ==
    \/ ScanHeading
    \/ ScanFence
    \/ ScanCodeLine
    \/ ScanCodeEnd
    \/ ScanList
    \/ ScanListItem
    \/ ScanListEnd
    \/ ScanParagraph
    \/ ScanParagraphLine
    \/ ScanParagraphEnd
    \/ ScanBlank
    \/ ScanReturn

SpecScan == ScanInit /\ [][ScanNext]_vars

\* The loop is a sequential program: it takes its next step.
SpecScanLive == SpecScan /\ WF_vars(ScanNext)

----------------------------------------------------------------------------
(* Overlapping calls of the Milvus paths. Every call connects and          *)
(* disconnects the one alias "default" of pymilvus' connection registry    *)
(* (`connected`); a thread is at the connect, at one of the provider       *)
(* operations of its call, at the finally block, or done.                  *)

MaxThreads == 2

ThreadIds == 1..MaxThreads

\* The calls that use Milvus, and the provider operations each one does
\* between its connect and its exit.
MilvusCalls ==
    {"search", "search_list_collections", "index_embeddings",
     "list_collections", "delete_collection", "get_collection_info"}

ProviderOperations(call) ==
    IF call = "search"
        THEN <<"Collection", "load", "query", "search">>
    ELSE IF call = "search_list_collections"
        THEN <<"utility.list_collections", "Collection">>
    ELSE IF call = "index_embeddings" THEN <<>>
    ELSE IF call = "list_collections" THEN <<"utility.list_collections">>
    ELSE IF call = "delete_collection" THEN <<"utility.drop_collection">>
    ELSE <<"Collection", "num_entities">>

\* _search_milvus has no finally block: it never disconnects.
Disconnects(call) == call # "search"

\* The except clause of lines 57-58 of search_service.py: a failure of
\* Collection(name) inside the loop is logged and the loop goes on.
Swallowed(call, operation) ==
    call = "search_list_collections" /\ operation = "Collection"

ThreadIdle == [pc |-> "idle"]

\* The thread leaves the try block: to the finally block, or out.
Leave(th, error) ==
    [th EXCEPT !.pc = IF Disconnects(th.call) THEN "finally" ELSE "done",
               !.error = error]

\* A thread enters one of the calls.
ThreadCall(t) ==
    /\ threads[t].pc = "idle"
    /\ \E call \in MilvusCalls :
        threads' = [threads EXCEPT ![t] =
                       [pc |-> "connect", call |-> call, done |-> 0,
                        error |-> "", lost |-> FALSE]]
    /\ UNCHANGED <<san, chroma, milvus, connected, clock, indexedBy, last, parse,
                   scan>>

\* connections.connect(alias="default", uri=...)
ThreadConnect(t) ==
    /\ threads[t].pc = "connect"
    /\ connected' = TRUE
    /\ threads' = [threads EXCEPT ![t].pc = "use"]
    /\ UNCHANGED <<san, chroma, milvus, clock, indexedBy, last, parse, scan>>

\* The next provider operation of the call, on the alias "default": it
\* fails if the registry does not hold the alias.
ThreadUse(t) ==
    /\ threads[t].pc = "use"
    /\ threads[t].done < Len(ProviderOperations(threads[t].call))
    /\ LET th == threads[t]
           operation == ProviderOperations(th.call)[th.done + 1]
       IN  threads' = [threads EXCEPT ![t] =
               IF connected
               THEN [th EXCEPT !.done = @ + 1]
               ELSE IF Swallowed(th.call, operation)
               THEN [th EXCEPT !.done = @ + 1, !.lost = TRUE]
               ELSE [Leave(th, "ConnectionNotExistException")
                        EXCEPT !.lost = TRUE]]
    /\ UNCHANGED <<san, chroma, milvus, connected, clock, indexedBy, last, parse,
                   scan>>

\* The call is through with the provider: it returns, or, in index, raises
\* the AttributeError of line 167.
ThreadLeave(t) ==
    /\ threads[t].pc = "use"
    /\ threads[t].done = Len(ProviderOperations(threads[t].call))
    /\ threads' = [threads EXCEPT ![t] =
                      Leave(@, IF @.call = "index_embeddings"
                               THEN "AttributeError" ELSE "")]
    /\ UNCHANGED <<san, chroma, milvus, connected, clock, indexedBy, last, parse,
                   scan>>

\* finally: connections.disconnect("default")
ThreadDisconnect(t) ==
    /\ threads[t].pc = "finally"
    /\ connected' = FALSE
    /\ threads' = [threads EXCEPT ![t].pc = "done"]
    /\ UNCHANGED <<san, chroma, milvus, clock, indexedBy, last, parse, scan>>

\* The call is over; the thread can take the next one.
ThreadReturn(t) ==
    /\ threads[t].pc = "done"
    /\ threads' = [threads EXCEPT ![t] = ThreadIdle]
    /\ UNCHANGED <<san, chroma, milvus, connected, clock, indexedBy, last, parse,
                   scan>>

ThreadsInit ==
    /\ threads = [t \in ThreadIds |-> ThreadIdle]
    /\ connected = FALSE
    /\ scan = ScanIdle
    /\ parse = ParseIdle
    /\ san = SanIdle
    /\ chroma = NoCollections
    /\ milvus = NoCollections
    /\ clock = 0
    /\ indexedBy = NoCollections
    /\ last = NoCall

ThreadsNext ==
    \E t \in ThreadIds :
        \/ ThreadCall(t)
        \/ ThreadConnect(t)
        \/ ThreadUse(t)
        \/ ThreadLeave(t)
        \/ ThreadDisconnect(t)
        \/ ThreadReturn(t)

SpecThreads == ThreadsInit /\ [][ThreadsNext]_vars

----------------------------------------------------------------------------
(* Properties of the calls. Each is stated on the state a call leaves,     *)
(* where `last` holds its arguments, its provider calls and its outcome.   *)

Range(s) == {s[i] : i \in DOMAIN s}

\* The position of the first occurrence of x in s, 0 if there is none.
Position(s, x) ==
    IF x \in Range(s) THEN CHOOSE i \in DOMAIN s :
                               s[i] = x /\ \A j \in 1..(i - 1) : s[j] # x
    ELSE 0

\* The artifact given to the last index call, and the store it filled.
LastArtifact == Artifacts[last.args.art]

StoreOf(provider) == IF provider = MILVUS THEN milvus ELSE chroma

\* C1: every call that opens a vector-database connection has released it
\* by the time it exits, on every exit path (return, empty-collection
\* error, an exception of the provider or of the embedding service).
C1_ConnectionReleased ==
    (last.op # "none" /\ "connect" \in Range(last.trace)) => ~connected

\* An artifact with a vector dimension and at least one record.
WellFormed(data) ==
    /\ {"filename", "embedding_provider", "embedding_model", "vector_dimension",
        "embeddings"} \subseteq DOMAIN data
    /\ data.vector_dimension > 0
    /\ data.embeddings # <<>>

\* C2: a Milvus index call on a well-formed artifact, with any index_mode,
\* creates the collection, inserts the records, builds the index and loads
\* the collection in this order, then returns the collection name and the
\* inserted count; it does not fail before the collection is created.
C2_MilvusIndexCompletes ==
    (/\ last.op = "index" /\ last.provider = MILVUS
     /\ last.args.fault = "none" /\ WellFormed(LastArtifact))
    => /\ last.error = ""
       /\ 0 < Position(last.trace, "create_collection")
       /\ Position(last.trace, "create_collection") < Position(last.trace, "insert")
       /\ Position(last.trace, "insert") < Position(last.trace, "create_index")
       /\ Position(last.trace, "create_index") < Position(last.trace, "load")
       /\ last.value.collection_name = last.collection
       /\ last.value.index_size = Len(LastArtifact.embeddings)

\* The provider, model and document name a stored record carries: fields of
\* a Milvus entity, entries of the metadata of a Chroma record.
Carried(provider, record) ==
    LET fields == IF provider = MILVUS THEN record ELSE record.metadata
    IN  [embedding_provider |-> Get(fields, "embedding_provider", <<>>),
         embedding_model |-> Get(fields, "embedding_model", ""),
         document_name |-> Get(fields, "document_name", <<>>)]

\* C3: after a successful index call, every record of the collection carries
\* the embedding provider and the embedding model of the artifact, and the
\* file name of the artifact as its document name.
C3_RecordsCarryProviderAndModel ==
    (last.op = "index" /\ last.error = "")
    => LET coll == StoreOf(last.provider)[last.collection]
           records == IF last.provider = MILVUS THEN coll.entities ELSE coll
       IN  \A i \in DOMAIN records :
               Carried(last.provider, records[i]) =
                   [embedding_provider |-> LastArtifact.embedding_provider,
                    embedding_model |-> LastArtifact.embedding_model,
                    document_name |-> LastArtifact.filename]

\* The key of the history of the collection the last call was about.
LastKey == <<last.provider, last.collection>>

\* C4: a search that embeds its query embeds it with the provider and the
\* model of the artifact the collection was filled from, never with a
\* built-in default.
C4_SearchEmbedsAsIndexed ==
    (last.op = "search" /\ last.embed # <<>> /\ LastKey \in DOMAIN indexedBy)
    => last.embed = <<Artifacts[indexedBy[LastKey]].embedding_provider,
                      Artifacts[indexedBy[LastKey]].embedding_model>>

\* C5: a search of a collection filled from an artifact of K records, with
\* top_k = K and both thresholds 0, returns K results, each with the file
\* name of the artifact as its source and the chunk id of one of its records
\* as its chunk.
C5_RoundTrip ==
    (/\ last.op = "search" /\ last.error = "" /\ LastKey \in DOMAIN indexedBy
     /\ last.args.top_k = Len(Artifacts[indexedBy[LastKey]].embeddings)
     /\ last.args.threshold = 0 /\ last.args.word_count_threshold = 0)
    => LET data == Artifacts[indexedBy[LastKey]]
       IN  /\ Len(last.results) = Len(data.embeddings)
           /\ \A i \in DOMAIN last.results :
               /\ last.results[i].metadata.source = data.filename
               /\ \E j \in DOMAIN data.embeddings :
                      last.results[i].metadata.chunk =
                          data.embeddings[j].metadata.chunk_id

\* The score and the stored word count of a hit, as C6 states them.
ScoreOf(provider, hit) ==
    IF provider = MILVUS THEN hit.score ELSE One - hit.distance

WordCountOf(provider, hit) ==
    Get(IF provider = MILVUS THEN hit.entity ELSE hit.metadata, "word_count", 0)

\* The hits that pass the two thresholds, in the order of the provider.
Passing(provider, hits, threshold, word_count_threshold) ==
    SelectSeq(hits, LAMBDA h : /\ ScoreOf(provider, h) >= threshold
                               /\ WordCountOf(provider, h) >= word_count_threshold)

\* C6: the results of a search are the hits of the provider, at most top_k,
\* in its order, whose score (similarity for Milvus, 1 - distance for
\* Chroma) and stored word count reach the two thresholds; a higher
\* threshold never gives more results for the same hits.
C6_ResultsAreThePassingHits ==
    (last.op = "search" /\ last.error = "")
    => LET passing == Passing(last.provider, last.hits, last.args.threshold,
                              last.args.word_count_threshold)
       IN  /\ Len(last.hits) <= last.args.top_k
           /\ Len(last.results) = Len(passing)
           /\ \A i \in DOMAIN passing :
               /\ last.results[i].score = ScoreOf(last.provider, passing[i])
               /\ last.results[i].text =
                      (IF last.provider = MILVUS THEN passing[i].entity.content
                       ELSE passing[i].document)
           /\ \A t \in Thresholds, w \in WordCountThresholds :
                  (t >= last.args.threshold /\ w >= last.args.word_count_threshold)
                  => Len(Passing(last.provider, last.hits, t, w))
                         <= Len(last.results)

\* A Chroma search whose two hits are told apart by the score threshold.
C6_Witness ==
    /\ last.op = "search" /\ last.provider = CHROMA /\ last.error = ""
    /\ last.args.threshold > 0
    /\ Len(last.hits) = 2 /\ Len(last.results) = 1

----------------------------------------------------------------------------
(* Properties of collection names. *)

\* ^[A-Za-z0-9][A-Za-z0-9_-]*[A-Za-z0-9]$, of 3 to 63 characters, with no
\* two adjacent separators.
LegalName(s) ==
    /\ Len(s) >= MinNameLen /\ Len(s) <= MaxNameLen
    /\ \A i \in DOMAIN s : s[i] \in AllowedChars
    /\ s[1] \in AlnumChars /\ s[Len(s)] \in AlnumChars
    /\ \A i \in 1..(Len(s) - 1) : ~(s[i] \in Separators /\ s[i + 1] \in Separators)

\* C7: for every input, the name sanitize returns is made of letters,
\* digits, '_' and '-', starts and ends with a letter or a digit, has 3 to
\* 63 characters and no two adjacent separators.
C7_SanitizedNameIsLegal ==
    san.pc \in {"once", "twice"} => LegalName(san.once)

EndsWith(s, suffix) ==
    /\ Len(suffix) <= Len(s)
    /\ SubSeq(s, Len(s) - Len(suffix) + 1, Len(s)) = suffix

\* C8: the collection name an index call computes ends with
\* _{embedding_provider}_{timestamp}, whatever the length of the base name.
C8_NameEndsWithProviderAndTimestamp ==
    (last.op = "index" /\ last.collection # <<>>)
    => EndsWith(last.collection,
                <<"_">> \o Get(LastArtifact, "embedding_provider", UnknownProvider)
                        \o <<"_">> \o Timestamp(last.clock))

\* Within the character and length constraints of a collection name.
InConstraints(s) ==
    /\ Len(s) >= MinNameLen /\ Len(s) <= MaxNameLen
    /\ \A i \in DOMAIN s : s[i] \in AllowedChars

\* C9: sanitize(sanitize(x)) = sanitize(x) for every x made of letters,
\* digits, '_' and '-' with 3 to 63 characters.
C9_SanitizeIsIdempotent ==
    (san.pc = "twice" /\ InConstraints(san.raw)) => san.twice = san.once

\* An input within the constraints that sanitize changes, sanitized twice.
C9_Witness ==
    /\ san.pc = "twice" /\ InConstraints(san.raw)
    /\ san.once # san.raw
    /\ Len(san.raw) > MinNameLen

\* What a stored record holds of the input record it was made from.
Payload(provider, record) ==
    IF provider = MILVUS THEN <<record.content, record.vector>>
    ELSE <<record.document, record.embedding>>

RecordsOf(provider, coll) == IF provider = MILVUS THEN coll.entities ELSE coll

----------------------------------------------------------------------------
(* Properties of the error paths of the index and administrative calls. *)

\* C11: for both providers an index call fails when the artifact has no
\* vector_dimension, and fails with the invalid-artifact error when it has
\* no embeddings key; it never returns a result for such an artifact.
C11_MalformedArtifactFails ==
    (last.op = "index" /\ last.provider \in {MILVUS, CHROMA})
    => /\ "embeddings" \notin DOMAIN LastArtifact
              => last.error = "ValueError: missing 'embeddings' key"
       /\ "vector_dimension" \notin DOMAIN LastArtifact => last.error # ""

\* C12: delete_collection and get_collection_info never raise, for either
\* provider: a missing collection or a failing provider gives False for
\* delete and an empty result for info.
C12_DeleteAndInfoNeverRaise ==
    (last.op \in {"delete", "info"}) => last.error = ""

\* C13: a call with an unsupported provider fails with an error before any
\* I/O: no embeddings artifact is loaded, no connection is opened.
C13_UnsupportedFailsBeforeIO ==
    (last.op # "none" /\ last.provider \notin {MILVUS, CHROMA})
    => /\ last.error = "ValueError: unsupported provider"
       /\ last.trace = <<>>

----------------------------------------------------------------------------
(* Properties of the Markdown parsers. Each is stated on the state a       *)
(* parse_document call leaves, where `parse` holds the file and the result.*)

\* A call of parse_document with this file type and method has returned.
Parsed(file_type, method) ==
    /\ parse.pc = "done" /\ parse.error = ""
    /\ parse.file_type = file_type /\ parse.method = method

\* The lines of the Markdown file, and the blocks returned.
MdFileLines == Split(parse.file.content)

Blocks == parse.value.content

BlocksOfType(type) == SelectSeq(Blocks, LAMBDA b : b.type = type)

\* C14: for a Markdown input with N heading lines whose first line is not
\* a heading, by_sections returns at least N and at most N + 1 section
\* blocks: every heading line produces a block.
C14_BySectionsBlockCount ==
    (Parsed("markdown", "by_sections") /\ ~StartsWith(MdFileLines[1], <<"#">>))
    => LET N == Cardinality({i \in DOMAIN MdFileLines :
                                 StartsWith(MdFileLines[i], <<"#">>)})
       IN  /\ \A i \in DOMAIN Blocks : Blocks[i].type = "section"
           /\ N <= Len(Blocks) /\ Len(Blocks) <= N + 1

\* The positions of the lines that start with the fence marker, and the
\* k-th of them; every second one, from the first on, opens a code block.
FenceLines ==
    {i \in DOMAIN MdFileLines : StartsWith(Strip(MdFileLines[i]), Fence)}

\* The position after the last line of the code block the m-th opening
\* fence opens: its closing fence, or the end of the input.
CloseOf(m) ==
    IF 2 * m <= Cardinality(FenceLines) THEN Nth(FenceLines, 2 * m)
    ELSE Len(MdFileLines) + 1

\* C15: in structured mode every fenced code block yields one code_block,
\* with the lines between the markers joined as content and the text after
\* the opening marker as language, also when no line is between the
\* markers; without a closing marker the content is all remaining lines.
C15_EveryFenceYieldsACodeBlock ==
    Parsed("markdown", "structured")
    => LET blocks == BlocksOfType("code_block")
       IN  /\ Len(blocks) = (Cardinality(FenceLines) + 1) \div 2
           /\ \A m \in DOMAIN blocks :
               LET open == Nth(FenceLines, 2 * m - 1)
                   marker == Strip(MdFileLines[open])
               IN  /\ blocks[m].content =
                          Join(SubSeq(MdFileLines, open + 1, CloseOf(m) - 1))
                   /\ blocks[m].language = SubSeq(marker, 4, Len(marker))

\* A line outside every fenced code block that is a list item: bulleted
\* with '- ', '* ', '+ ', or numbered with digits and a dot.
ListLine(i) ==
    /\ i \in DOMAIN MdFileLines
    /\ Cardinality({f \in FenceLines : f < i}) % 2 = 0
    /\ \/ IsBulleted(Strip(MdFileLines[i]))
       \/ IsNumbered(Strip(MdFileLines[i]))

\* The first lines of the maximal runs of list lines, and where the run
\* that starts at line i stops.
RunStarts == {i \in DOMAIN MdFileLines : ListLine(i) /\ ~ListLine(i - 1)}

RunStop(i) == Min({j \in (i + 1)..(Len(MdFileLines) + 1) : ~ListLine(j)})

\* C16: in structured mode every maximal run of consecutive list-item lines
\* yields one list block with those lines, stripped, in order, ordered iff
\* the first item is numbered; the line that ends the run is not lost: a
\* heading line gives a heading block and a text line starts a paragraph.
C16_EveryListRunYieldsAListBlock ==
    Parsed("markdown", "structured")
    => LET blocks == BlocksOfType("list")
       IN  /\ Len(blocks) = Cardinality(RunStarts)
           /\ \A m \in DOMAIN blocks :
               LET start == Nth(RunStarts, m)
                   stop == RunStop(start)
                   next == IF stop <= Len(MdFileLines)
                           THEN Strip(MdFileLines[stop]) ELSE <<>>
               IN  /\ blocks[m].content =
                          [k \in 1..(stop - start) |->
                              Strip(MdFileLines[start + k - 1])]
                   /\ (blocks[m].list_type = "ordered")
                          = IsNumbered(Strip(MdFileLines[start]))
                   /\ blocks[m].list_type \in {"ordered", "unordered"}
                   /\ StartsWith(next, <<"#">>)
                          => \E b \in Range(BlocksOfType("heading")) :
                                 b.content = Strip(LStripHashes(next))
                   /\ (next # <<>> /\ ~StartsWith(next, <<"#">>)
                       /\ ~StartsWith(next, Fence))
                          => \E b \in Range(BlocksOfType("paragraph")) :
                                 StartsWith(b.content, MdFileLines[stop])

\* A structured parse with a run of two list items, the first numbered,
\* that a text line ends.
C16_Witness ==
    /\ Parsed("markdown", "structured")
    /\ \E i \in RunStarts :
        /\ RunStop(i) = i + 2 /\ i + 2 <= Len(MdFileLines)
        /\ IsNumbered(Strip(MdFileLines[i]))
        /\ IsBulleted(Strip(MdFileLines[i + 1]))
        /\ MdFileLines[i + 2] = <<"t">>

----------------------------------------------------------------------------
(* Properties of the PDF parsers, on the state a parse_document call       *)
(* leaves.                                                                 *)

\* The pages of the PDF file as the parsers read them, and their lines.
FilePageMap == PageMap(parse.file)

FilePageLines == PageLines(FilePageMap)

\* The positions of the title lines: trimmed length under 60, all upper-case.
TitleLines ==
    {i \in DOMAIN FilePageLines :
        /\ Len(Strip(FilePageLines[i].line)) < TitleMaxLen
        /\ IsUpper(FilePageLines[i].line)}

\* The non-title lines after the title at position i, up to the next title
\* or the end of the input.
LinesUnder(i) ==
    LET stop == Min({j \in (i + 1)..(Len(FilePageLines) + 1) : j \in TitleLines
                                              \/ j = Len(FilePageLines) + 1})
    IN  [k \in 1..(stop - i - 1) |-> FilePageLines[i + k].line]

\* C17: by_titles returns one section block per title line, in the order of
\* the titles, with the trimmed title, the joined non-title lines up to the
\* next title or the end of the input, and the page the title was found on;
\* a page map with no title line gives no block.
C17_OneSectionPerTitle ==
    (Parsed("pdf", "by_titles") /\ parse.tool = "pymupdf")
    => /\ Len(Blocks) = Cardinality(TitleLines)
       /\ \A m \in DOMAIN Blocks :
           LET i == Nth(TitleLines, m)
           IN  /\ Blocks[m].type = "section"
               /\ Blocks[m].title = Strip(FilePageLines[i].line)
               /\ Blocks[m].content = Join(LinesUnder(i))
               /\ Blocks[m].page = FilePageLines[i].page

\* The call went to the page segmenter: directly, or delegated by the
\* table-augmented parser.
Segmented ==
    /\ parse.pc = "done" /\ parse.file_type = "pdf"
    /\ \/ parse.tool = "pymupdf"
       \/ parse.method \notin {"tables_only", "text_and_tables"}

\* C18: for all_text, by_pages and text_and_tables the page segmenter
\* returns one block per page of a non-empty page map, in page order, block
\* i with the number and the unmodified text of page i, of type Text for
\* all_text, Page for by_pages, and for text_and_tables table iff the text
\* has a pipe or a tab, else text; on an empty page map every method fails
\* with the empty-document error.
C18_OneBlockPerPage ==
    Segmented
    => /\ FilePageMap = <<>>
           => parse.error = "ValueError: No content extracted from PDF."
       /\ (FilePageMap # <<>>
           /\ parse.method \in {"all_text", "by_pages", "text_and_tables"})
           => /\ parse.error = ""
              /\ Len(Blocks) = Len(parse.file.pages)
              /\ \A i \in DOMAIN Blocks :
                  LET text == parse.file.pages[i]
                  IN  /\ Blocks[i].page = i
                      /\ Blocks[i].content = text
                      /\ Blocks[i].type =
                            IF parse.method = "all_text" THEN "Text"
                            ELSE IF parse.method = "by_pages" THEN "Page"
                            ELSE IF \E k \in DOMAIN text : text[k] = "|" \/ text[k] = Tab
                                 THEN "table"
                            ELSE "text"

\* A text_and_tables result of the page segmenter for two pages: the first
\* has a tab and no pipe and gives a table block, the second gives a text
\* block.
C18_Witness ==
    /\ Parsed("pdf", "text_and_tables") /\ parse.tool = "pymupdf"
    /\ Len(Blocks) = 2
    /\ Tab \in Range(parse.file.pages[1]) /\ "|" \notin Range(parse.file.pages[1])
    /\ Blocks[1].type = "table" /\ Blocks[2].type = "text"

\* C19: with P pages and T extracted tables, the table-augmented
\* text_and_tables returns P + T blocks: first the P text blocks, one per
\* page in page order, then the T table blocks in the order the toolkit
\* returned the tables.
C19_TextBlocksThenTableBlocks ==
    (Parsed("pdf", "text_and_tables") /\ parse.tool = "camelot")
    => LET P == Len(parse.file.pages)
           T == Len(parse.file.tables)
       IN  /\ Len(Blocks) = P + T
           /\ \A i \in 1..P :
               Blocks[i] = [type |-> "text", content |-> parse.file.pages[i],
                            page |-> i]
           /\ \A j \in 1..T :
               /\ Blocks[P + j].type = "table"
               /\ Blocks[P + j].content = parse.file.tables[j].df
               /\ Blocks[P + j].page = parse.file.tables[j].page
               /\ Blocks[P + j].accuracy = parse.file.tables[j].accuracy
               /\ Blocks[P + j].whitespace = parse.file.tables[j].whitespace

\* A table-augmented text_and_tables result for two pages and two tables,
\* the first table from the second page.
C19_Witness ==
    /\ Parsed("pdf", "text_and_tables") /\ parse.tool = "camelot"
    /\ Len(parse.file.pages) = 2 /\ Len(parse.file.tables) = 2
    /\ Len(Blocks) = 4
    /\ Blocks[3].page = 2 /\ Blocks[4].page = 1

\* C20: for every method the table-augmented parser accepts, the metadata
\* of the document returned has the number of extracted tables and the
\* identifier of the table-extraction tool, and for a method delegated to
\* the page segmenter the content is the page segmenter's.
C20_TableMetadataForEveryMethod ==
    (parse.pc = "done" /\ parse.error = "" /\ parse.file_type = "pdf"
     /\ parse.tool = "camelot")
    => /\ "total_tables" \in DOMAIN parse.value.metadata
       /\ Get(parse.value.metadata, "total_tables", -1) = Len(parse.file.tables)
       /\ parse.value.metadata.parsing_tool = "camelot"
       /\ parse.method \notin {"tables_only", "text_and_tables"}
           => Blocks = parse_pdf(ParseBegin, parse.file, parse.method,
                                 CallerMetadata).value.content

----------------------------------------------------------------------------
(* The structured scan as a whole: which block every line ends up in.      *)

\* Line i is outside every fenced code block and is not a fence marker.
Outside(i) ==
    /\ i \in DOMAIN MdFileLines
    /\ i \notin FenceLines
    /\ Cardinality({f \in FenceLines : f < i}) % 2 = 0

HeadingLine(i) == Outside(i) /\ StartsWith(Strip(MdFileLines[i]), <<"#">>)

\* A non-blank line outside the fences that starts none of heading, code
\* fence or list.
ParaLine(i) ==
    /\ Outside(i) /\ Strip(MdFileLines[i]) # <<>>
    /\ ~HeadingLine(i) /\ ~ListLine(i)

ParaStarts == {i \in DOMAIN MdFileLines : ParaLine(i) /\ ~ParaLine(i - 1)}

ParaStop(i) == Min({j \in (i + 1)..(Len(MdFileLines) + 1) : ~ParaLine(j)})

\* The opening markers of the fenced blocks with a line inside.
CodeStarts ==
    {i \in FenceLines :
        /\ Cardinality({f \in FenceLines : f < i}) % 2 = 0
        /\ i + 1 \in DOMAIN MdFileLines /\ i + 1 \notin FenceLines}

\* The lines a block starts at, and the block that starts at line i.
Units ==
    {i \in DOMAIN MdFileLines : HeadingLine(i)} \cup RunStarts \cup ParaStarts
        \cup CodeStarts

UnitType(i) ==
    IF HeadingLine(i) THEN "heading"
    ELSE IF i \in RunStarts THEN "list"
    ELSE IF i \in ParaStarts THEN "paragraph"
    ELSE "code_block"

\* C22: in structured mode a non-blank run of lines that starts none of
\* heading, code fence or list yields one paragraph block with those lines
\* joined, ending at a blank line or at the first line that starts a
\* heading, a list or a code block; the blocks come in source order, and
\* every non-blank line outside the fences, markers aside, is in exactly
\* one block: a heading in its heading block, a list line in the block of
\* its run, any other line in the paragraph of its run.
C22_ParagraphsAndSourceOrder ==
    Parsed("markdown", "structured")
    => /\ Len(Blocks) = Cardinality(Units)
       /\ \A k \in DOMAIN Blocks :
           LET i == Nth(Units, k)
           IN  /\ Blocks[k].type = UnitType(i)
               /\ HeadingLine(i) =>
                      Blocks[k].content = Strip(LStripHashes(Strip(MdFileLines[i])))
               /\ i \in RunStarts =>
                      Blocks[k].content =
                          [n \in 1..(RunStop(i) - i) |->
                              Strip(MdFileLines[i + n - 1])]
               /\ i \in ParaStarts =>
                      Blocks[k].content =
                          Join(SubSeq(MdFileLines, i, ParaStop(i) - 1))

\* A structured parse of a list line, then a paragraph of two lines that a
\* heading ends: three blocks.
C22_Witness ==
    /\ Parsed("markdown", "structured")
    /\ Len(MdFileLines) = 4
    /\ ListLine(1) /\ ParaLine(2) /\ ParaLine(3) /\ HeadingLine(4)
    /\ Len(Blocks) = 3
    /\ Blocks[2].content = Join(SubSeq(MdFileLines, 2, 3))

----------------------------------------------------------------------------
(* Properties of the structured scan, step by step.                        *)

\* The step-by-step scan returns what the parser of the calls returns.
ScanAgreesWithParser ==
    scan.pc = "returned"
    => scan.structured_content = StructuredFrom(scan.lines, 1)

\* A step that ends an iteration of the outer loop: the loop is taken up
\* again at an index beyond the one the iteration began at.
IterationAdvances ==
    (scan.pc # "returned" /\ scan'.pc = "outer") => scan'.i >= scan.start + 1

\* The list and the paragraph branch have consumed the line that selected
\* them when they end.
BranchConsumes ==
    (scan.pc \in {"list", "paragraph"} /\ scan'.pc = "outer")
    => (scan.items # <<>> /\ scan.i > scan.start)

\* C23: the structured scan terminates on every input: every iteration of
\* the outer loop advances the index by at least one, the list and the
\* paragraph branch consume at least the line that selected them, the index
\* never decreases, and the scan ends with the index at or past the number
\* of lines.
C23_ScanTerminates ==
    /\ [][IterationAdvances /\ BranchConsumes /\ scan'.i >= scan.i]_vars
    /\ <>[](scan.pc = "returned" /\ scan.i >= Len(scan.lines))

\* A scan that has returned after a list of two items and a paragraph.
C23_Witness ==
    /\ scan.pc = "returned"
    /\ scan.i = Len(scan.lines)
    /\ Len(scan.structured_content) = 2
    /\ scan.structured_content[1].type = "list"
    /\ Len(scan.structured_content[1].content) = 2
    /\ scan.structured_content[2].type = "paragraph"

----------------------------------------------------------------------------
(* Properties of overlapping calls.                                        *)

\* Thread t is inside a call, after its connect, with a provider operation
\* still to do.
InProgress(t) ==
    /\ threads[t].pc = "use"
    /\ threads[t].done < Len(ProviderOperations(threads[t].call))

\* C21: overlapping calls share no mutable state but the database: a call
\* that releases its connection never closes the connection another call
\* in progress is still using, so a call in progress has its connection and
\* none of its provider operations finds it closed.
C21_ReleaseLeavesOthersConnected ==
    \A t \in DOMAIN threads :
        /\ InProgress(t) => connected
        /\ threads[t].pc # "idle" => ~threads[t].lost

=============================================================================
